---- MODULE Spec2Model ----
(***************************************************************************)
(* Model of the column profiler of validation-component-bootstrap-utils    *)
(* (src/src/validation/manager.py, class Manager) and of the command-line  *)
(* entry point that drives it (src/src/generate_validation_module.py).     *)
(*                                                                         *)
(* A Python str is a sequence of one-character strings; the input file is  *)
(* the sequence of rows csv.reader(f, delimiter="\t") yields, each row a   *)
(* sequence of fields (a blank line is the row << >>).                     *)
(***************************************************************************)
EXTENDS Integers, Sequences, FiniteSets, TLC

\* ------------------------------------------------------------------------
\* Bounds of the model
\* ------------------------------------------------------------------------
MaxRows == 2
MaxThreshold == 2
MaxValues == 3
MaxLen == 3

\* ------------------------------------------------------------------------
\* Characters and str methods
\* ------------------------------------------------------------------------
LowerLetters == <<"a","b","c","d","e","f","g","h","i","j","k","l","m",
                  "n","o","p","q","r","s","t","u","v","w","x","y","z">>

UpperLetters == <<"A","B","C","D","E","F","G","H","I","J","K","L","M",
                  "N","O","P","Q","R","S","T","U","V","W","X","Y","Z">>

Range(f) == {f[i] : i \in DOMAIN f}

Digits == {"0","1","2","3","4","5","6","7","8","9"}

\* what \s matches and what int()/float() strip
Whitespace == {" ", "\t", "\n", "\r", "\f"}

IndexOf(seq, c) == CHOOSE i \in DOMAIN seq : seq[i] = c

\* str.lower() and str.upper(), one character at a time
LowerChar(c) == IF c \in Range(UpperLetters) THEN LowerLetters[IndexOf(UpperLetters, c)] ELSE c

UpperChar(c) == IF c \in Range(LowerLetters) THEN UpperLetters[IndexOf(LowerLetters, c)] ELSE c

Lower(s) == [i \in DOMAIN s |-> LowerChar(s[i])]

Upper(s) == [i \in DOMAIN s |-> UpperChar(s[i])]

\* str.replace(old, new) for a one-character old; new is a str (possibly empty)
RECURSIVE Replace(_, _, _)
Replace(s, old, new) ==
    IF s = << >> THEN << >>
    ELSE (IF Head(s) = old THEN new ELSE <<Head(s)>>) \o Replace(Tail(s), old, new)

\* str.strip()
RECURSIVE LStrip(_)
LStrip(s) == IF s # << >> /\ Head(s) \in Whitespace THEN LStrip(Tail(s)) ELSE s

RECURSIVE RStrip(_)
RStrip(s) ==
    IF s # << >> /\ s[Len(s)] \in Whitespace THEN RStrip(SubSeq(s, 1, Len(s) - 1)) ELSE s

Strip(s) == RStrip(LStrip(s))

\* all strings of length at most n over an alphabet
Strings(alphabet, n) == UNION {[1..k -> alphabet] : k \in 0..n}

\* ------------------------------------------------------------------------
\* int(value) and float(value): which strings parse
\* ------------------------------------------------------------------------
\* digit ("_"? digit)*
IsDigitPart(s) ==
    /\ s # << >>
    /\ \A i \in DOMAIN s : s[i] \in Digits \cup {"_"}
    /\ s[1] \in Digits
    /\ s[Len(s)] \in Digits
    /\ \A i \in 1..(Len(s) - 1) : ~(s[i] = "_" /\ s[i + 1] = "_")

DropSign(s) == IF s # << >> /\ Head(s) \in {"+", "-"} THEN Tail(s) ELSE s

\* digitpart ["." [digitpart]]  |  "." digitpart
IsPointFloat(s) ==
    \/ IsDigitPart(s)
    \/ \E i \in DOMAIN s :
          /\ s[i] = "."
          /\ LET int_part == SubSeq(s, 1, i - 1)
                 frac_part == SubSeq(s, i + 1, Len(s))
             IN  /\ int_part # << >> \/ frac_part # << >>
                 /\ int_part = << >> \/ IsDigitPart(int_part)
                 /\ frac_part = << >> \/ IsDigitPart(frac_part)

\* pointfloat [("e" | "E") ["+" | "-"] digitpart]
IsDecimalFloat(s) ==
    \/ IsPointFloat(s)
    \/ \E i \in DOMAIN s :
          /\ s[i] \in {"e", "E"}
          /\ IsPointFloat(SubSeq(s, 1, i - 1))
          /\ IsDigitPart(DropSign(SubSeq(s, i + 1, Len(s))))

SpecialFloats == {<<"i","n","f">>, <<"n","a","n">>,
                  <<"i","n","f","i","n","i","t","y">>}

\* Manager._is_convertible_to_int: int(value) raises no ValueError
_is_convertible_to_int(value) == IsDigitPart(DropSign(Strip(value)))

\* Manager._is_convertible_to_float: float(value) raises no ValueError
_is_convertible_to_float(value) ==
    LET body == DropSign(Strip(value))
    IN  IsDecimalFloat(body) \/ Lower(body) \in SpecialFloats

\* ------------------------------------------------------------------------
\* Name derivation
\* ------------------------------------------------------------------------
Letters == Range(LowerLetters) \cup Range(UpperLetters)

\* Manager.pattern r"[^a-zA-Z0-9\s]": the characters re.sub removes
MatchesPattern(c) == c \notin (Letters \cup Digits \cup Whitespace)

RemoveSpecial(s) == SelectSeq(s, LAMBDA c : ~MatchesPattern(c))

\* Manager._derive_attribute_name
_derive_attribute_name(column_name) ==
    LET attribute_name == RemoveSpecial(column_name)
    IN  Replace(Lower(attribute_name), " ", << >>)

\* str.split("_")
RECURSIVE Split(_, _)
Split(s, word) ==
    IF s = << >> THEN <<word>>
    ELSE IF Head(s) = "_" THEN <<word>> \o Split(Tail(s), << >>)
    ELSE Split(Tail(s), Append(word, Head(s)))

\* str.capitalize()
Capitalize(word) ==
    [i \in DOMAIN word |-> IF i = 1 THEN UpperChar(word[i]) ELSE LowerChar(word[i])]

\* "".join(words)
RECURSIVE Join(_)
Join(words) == IF words = << >> THEN << >> ELSE Head(words) \o Join(Tail(words))

\* Manager._snake_to_upper_camel
_snake_to_upper_camel(class_name) ==
    LET words == Split(class_name, << >>)
        camel_case_words == [i \in DOMAIN words |-> Capitalize(words[i])]
    IN  Join(camel_case_words)

\* Manager._derive_class_name_for_column_name
_derive_class_name_for_column_name(column_name) ==
    LET r1 == Replace(column_name, " ", <<"_">>)
        r2 == Replace(r1, "*", << >>)
        r3 == Replace(r2, "#", << >>)
        r4 == Replace(r3, "\\", << >>)
        r5 == Replace(r4, "/", <<"_">>)
        r6 == Replace(r5, "|", <<"_">>)
        r7 == Replace(r6, "(", <<"_">>)
        r8 == Replace(r7, ")", <<"_">>)
    IN  _snake_to_upper_camel(r8)

\* Manager._derive_column_outfile: <<column_position, basename>> stands for
\* os.path.join(outdir, f"{column_position}_{basename}.tsv")
_derive_column_outfile(column_name, column_position) ==
    LET r1 == Replace(column_name, " ", << >>)
        r2 == Replace(r1, "*", << >>)
        r3 == Replace(r2, "\\", << >>)
        r4 == Replace(r3, "/", <<"_">>)
        r5 == Replace(r4, "|", <<"_">>)
        r6 == Replace(r5, "(", <<"_">>)
        basename == Replace(r6, ")", <<"_">>)
    IN  <<column_position, basename>>

\* ------------------------------------------------------------------------
\* Datatype inference
\* ------------------------------------------------------------------------
\* type(value) after the conversions of the loop body; a type object is
\* written "<class ...>" and is equal to no datatype tag
TypeOfConverted(value) ==
    IF _is_convertible_to_int(value) THEN "<class 'int'>"
    ELSE IF _is_convertible_to_float(value) THEN "<class 'float'>"
    ELSE "<class 'str'>"

\* first_datatype as set by lines 453-464
FirstDatatype(first_value) ==
    IF _is_convertible_to_int(first_value) THEN "int"
    ELSE IF _is_convertible_to_float(first_value) THEN "float"
    ELSE "<class 'str'>"

\* first_datatype_clean as set by lines 453-464
FirstDatatypeClean(first_value) ==
    IF _is_convertible_to_int(first_value) THEN "int"
    ELSE IF _is_convertible_to_float(first_value) THEN "float"
    ELSE "str"

\* a loop body that lets a value that parses as a float pass under the
\* baseline "int"
ValueAcceptedUnderIntBaseline(value, first_datatype) ==
    IF _is_convertible_to_float(value) /\ first_datatype \in {"int", "float"} THEN TRUE
    ELSE TypeOfConverted(value) = first_datatype

\* one pass of the loop body of lines 469-485: TRUE when the body reaches
\* `continue` or falls through without returning "different"
ValueAccepted(value, first_datatype) ==
    IF _is_convertible_to_int(value) /\ first_datatype = "int" THEN TRUE
    ELSE IF ~_is_convertible_to_int(value) /\ _is_convertible_to_float(value)
            /\ first_datatype = "float" THEN TRUE
    ELSE TypeOfConverted(value) = first_datatype

\* the loop of lines 469-485 over values[i..]
RECURSIVE DatatypeLoop(_, _, _)
DatatypeLoop(values, i, first_datatype) ==
    IF i > Len(values) THEN "same"
    ELSE IF ValueAccepted(values[i], first_datatype)
         THEN DatatypeLoop(values, i + 1, first_datatype)
         ELSE "different"

\* Manager._determine_datatype; "SystemExit" stands for sys.exit(1)
_determine_datatype(values) ==
    IF values = << >> THEN "SystemExit"
    ELSE IF DatatypeLoop(values, 2, FirstDatatype(values[1])) = "different"
         THEN "different"
         ELSE FirstDatatypeClean(values[1])

\* ------------------------------------------------------------------------
\* Enum lookup
\* ------------------------------------------------------------------------
\* re.search(r"^\d", val)
StartsWithDigit(val) == val # << >> /\ val[1] \in Digits

\* the member name lines 232-237 give to val
EnumName(val, class_name) ==
    LET enum_name == Upper(_derive_attribute_name(val))
    IN  IF Len(enum_name) = 1 \/ StartsWithDigit(val)
        THEN Upper(class_name) \o <<"_">> \o Upper(val)
        ELSE enum_name

\* dict[key] = value
DictSet(dict, key, value) ==
    [k \in (DOMAIN dict) \cup {key} |-> IF k = key THEN value ELSE dict[k]]

EmptyDict == [k \in {} |-> << >>]

\* the loop of lines 231-241 over the keys of uniq_val_lookup from the i-th on
RECURSIVE EnumLoop(_, _, _, _)
EnumLoop(uniq_val_list, i, members, class_name) ==
    IF i > Len(uniq_val_list) THEN members
    ELSE EnumLoop(uniq_val_list, i + 1,
                  DictSet(members, EnumName(uniq_val_list[i], class_name), uniq_val_list[i]),
                  class_name)

\* Manager._load_enum_lookup; the keys of uniq_val_lookup are iterated in
\* insertion order, which is uniq_val_list
_load_enum_lookup(uniq_val_list, enum_lookup, class_name) ==
    LET members == IF class_name \in DOMAIN enum_lookup
                   THEN enum_lookup[class_name] ELSE EmptyDict
    IN  DictSet(enum_lookup, class_name, EnumLoop(uniq_val_list, 1, members, class_name))

\* ------------------------------------------------------------------------
\* State
\* ------------------------------------------------------------------------
VARIABLES
    infile_exists,      \* os.path.exists(infile)
    extension,          \* os.path.splitext(infile)[1]
    infile,             \* the rows csv.reader yields for the input file
    max_equality_values,\* config["max_equality_values"]
    pc,                 \* where the run is
    exit_status,        \* the process's exit status once it has ended
    failure,            \* what ended the run: the error logged or the exception
    header_keys,        \* keys of header_to_position_lookup, insertion order
    header_to_position_lookup,
    column_name_to_attribute_name_lookup,
    column_idx,         \* how many keys the loop of line 147 has consumed
    lookup,             \* schema lookup of _process_columns_for_tsv_file
    enum_lookup,        \* enum lookup of _process_columns_for_tsv_file
    reports,            \* column report files written, in write order
    record_files,       \* record class files written, in write order
    call                \* a single call of a pure method: arguments and result

vars == <<infile_exists, extension, infile, max_equality_values, pc, exit_status,
          failure,
          header_keys, header_to_position_lookup,
          column_name_to_attribute_name_lookup, column_idx, lookup, enum_lookup,
          reports, record_files, call>>

run_vars == <<infile_exists, extension, infile, max_equality_values, pc,
              exit_status, failure, header_keys, header_to_position_lookup,
              column_name_to_attribute_name_lookup, column_idx, lookup,
              enum_lookup, reports, record_files>>

NoCall == [fn |-> "none", done |-> FALSE]

\* no run of the tool: the state of the specifications of the pure methods
NoRun ==
    /\ infile_exists = FALSE
    /\ extension = ""
    /\ infile = << >>
    /\ max_equality_values = 0
    /\ pc = "no_run"
    /\ exit_status = "running"
    /\ failure = "none"
    /\ header_keys = << >>
    /\ header_to_position_lookup = EmptyDict
    /\ column_name_to_attribute_name_lookup = EmptyDict
    /\ column_idx = 0
    /\ lookup = EmptyDict
    /\ enum_lookup = EmptyDict
    /\ reports = << >>
    /\ record_files = << >>

\* ------------------------------------------------------------------------
\* Specification of _determine_datatype alone
\* ------------------------------------------------------------------------
DatatypeValues ==
    { <<"1">>, <<"2">>, <<" ","1">>, <<"1",".","5">>, <<"2",".","0">>, <<"1",".">>,
      <<"n","a","n">>, <<"a">>, <<"-">>, << >> }

ValueLists == UNION {[1..n -> DatatypeValues] : n \in 0..MaxValues}

InitDatatype ==
    /\ NoRun
    /\ \E values \in ValueLists :
          call = [fn |-> "_determine_datatype", values |-> values,
                  done |-> FALSE, ret |-> << >>]

DetermineDatatype ==
    /\ call.fn = "_determine_datatype"
    /\ ~call.done
    /\ call' = [call EXCEPT !.done = TRUE, !.ret = _determine_datatype(call.values)]
    /\ UNCHANGED run_vars

NextDatatype == DetermineDatatype

SpecDatatype == InitDatatype /\ [][NextDatatype]_vars

\* C1: _determine_datatype returns "float" for every non-empty value list whose
\* first value does not parse as an integer but parses as a float and whose
\* every later value parses as a float (integer-looking values included).
C1_FloatColumnIsFloat ==
    (/\ call.fn = "_determine_datatype"
     /\ call.done
     /\ call.values # << >>
     /\ ~_is_convertible_to_int(call.values[1])
     /\ \A i \in DOMAIN call.values : _is_convertible_to_float(call.values[i]))
    => call.ret = "float"

\* ------------------------------------------------------------------------
\* Specification of the name derivations alone
\* ------------------------------------------------------------------------
NameChars == {"R", "e", "d", "1", " ", "\t", ".", "-"}

ColumnNames == { <<"a">>, <<"A">>, <<"b", " ", "c">> }

InitNames ==
    /\ NoRun
    /\ \E text \in Strings(NameChars, MaxLen) :
          \/ call = [fn |-> "_derive_attribute_name", column_name |-> text,
                     done |-> FALSE, ret |-> << >>]
          \/ \E column_name \in ColumnNames :
                call = [fn |-> "_load_enum_lookup", uniq_val_list |-> <<text>>,
                        enum_lookup |-> EmptyDict,
                        class_name |-> _derive_class_name_for_column_name(column_name),
                        done |-> FALSE, ret |-> << >>]

DeriveAttributeName ==
    /\ call.fn = "_derive_attribute_name"
    /\ ~call.done
    /\ call' = [call EXCEPT !.done = TRUE,
                          !.ret = _derive_attribute_name(call.column_name)]
    /\ UNCHANGED run_vars

LoadEnumLookup ==
    /\ call.fn = "_load_enum_lookup"
    /\ ~call.done
    /\ call' = [call EXCEPT !.done = TRUE,
                          !.ret = _load_enum_lookup(call.uniq_val_list,
                                                    call.enum_lookup,
                                                    call.class_name)]
    /\ UNCHANGED run_vars

NextNames == DeriveAttributeName \/ LoadEnumLookup

SpecNames == InitNames /\ [][NextNames]_vars

IsLegalIdentifier(name) ==
    /\ name # << >>
    /\ \A i \in DOMAIN name : name[i] \in Letters \cup Digits \cup {"_"}
    /\ name[1] \notin Digits

\* C3: each value's member name is its derived attribute name uppercased,
\* prefixed with the uppercased class name and an underscore whenever the
\* derived name is a single character or starts with a digit, so that every
\* member name stored is a legal identifier.
C3_MemberNamesAreLegalIdentifiers ==
    (call.fn = "_load_enum_lookup" /\ call.done) =>
        \A class_name \in DOMAIN call.ret :
            \A enum_name \in DOMAIN call.ret[class_name] :
                /\ IsLegalIdentifier(enum_name)
                /\ LET val == call.ret[class_name][enum_name]
                       derived == Upper(_derive_attribute_name(val))
                   IN  enum_name =
                         IF Len(derived) = 1 \/ (derived # << >> /\ derived[1] \in Digits)
                         THEN Upper(class_name) \o <<"_">> \o derived
                         ELSE derived

\* C7: _derive_attribute_name returns a string made only of lowercase ASCII
\* letters and digits (no whitespace of any kind, no punctuation, no uppercase
\* letter); the empty string yields the empty string.
C7_AttributeNameIsLowerAlnum ==
    (call.fn = "_derive_attribute_name" /\ call.done) =>
        /\ \A i \in DOMAIN call.ret : call.ret[i] \in Range(LowerLetters) \cup Digits
        /\ call.column_name = << >> => call.ret = << >>

\* ------------------------------------------------------------------------
\* The run of the tool on one input file
\* ------------------------------------------------------------------------
CellValues == { <<"1">>, <<"1", ".", "5">>, <<"a">>, <<"A">> }

Extensions == {".tsv", ".csv", ".txt", ".TSV", ""}

\* rows of no field, one field or two fields
Rows(pool) == {<< >>} \cup {<<x>> : x \in pool} \cup {<<x, y>> : x \in pool, y \in pool}

\* a header row followed by at most MaxRows further rows, or no row at all
\* (a file of size 0)
Files ==
    {<< >>} \cup
    { <<header>> \o data :
        header \in Rows(ColumnNames),
        data \in UNION {[1..n -> Rows(CellValues)] : n \in 0..MaxRows} }

\* the files of no row after the header
HeaderOnlyFiles == {file \in Files : Len(file) <= 1}

\* Only os.path.exists and os.stat(infile).st_size are read of a file whose
\* extension is not ".tsv" (lines 67-77 end the run before any open), so
\* such a file is drawn among the header-only files.
Init ==
    /\ call = NoCall
    /\ infile_exists \in BOOLEAN
    /\ extension \in Extensions
    /\ infile \in Files
    /\ ~infile_exists => infile = << >>
    /\ extension # ".tsv" => infile \in HeaderOnlyFiles
    /\ max_equality_values \in 1..MaxThreshold
    /\ pc = "main"
    /\ exit_status = "running"
    /\ failure = "none"
    /\ header_keys = << >>
    /\ header_to_position_lookup = EmptyDict
    /\ column_name_to_attribute_name_lookup = EmptyDict
    /\ column_idx = 0
    /\ lookup = EmptyDict
    /\ enum_lookup = EmptyDict
    /\ reports = << >>
    /\ record_files = << >>

\* sys.exit(status) after logging an error, or an uncaught exception
\* (status 1); status 0 is the return from main
Exit(status, why) ==
    /\ pc' = "exited"
    /\ exit_status' = status
    /\ failure' = why

\* a check of the input file that leaves out os.stat(infile).st_size == 0
CheckInfileStatusIgnoresSize == ~infile_exists

\* check_infile_status(infile) as main calls it (extension is None); the
\* file has size 0 exactly when csv.reader yields no row
CheckInfileStatusFails == ~infile_exists \/ infile = << >>

\* main, up to the call of Manager.generate_validation_modules
Main ==
    /\ pc = "main"
    /\ IF CheckInfileStatusFails
       THEN Exit(1, "Detected problems with input file")
       ELSE pc' = "generate_validation_modules" /\ UNCHANGED <<exit_status, failure>>
    /\ UNCHANGED <<infile_exists, extension, infile, max_equality_values,
                   header_keys, header_to_position_lookup,
                   column_name_to_attribute_name_lookup, column_idx, lookup,
                   enum_lookup, reports, record_files, call>>

\* a dispatch that sends a .csv file down the path of a .tsv file
GenerateValidationModulesCsvAsTsv ==
    /\ pc = "generate_validation_modules"
    /\ IF extension \notin {".csv", ".tsv"}
       THEN Exit(1, "Support does not exist for files with extension")
       ELSE IF ~infile_exists
       THEN Exit(1, "Exception: file does not exist")
       ELSE pc' = "derive_column_headers" /\ UNCHANGED <<exit_status, failure>>
    /\ UNCHANGED <<infile_exists, extension, infile, max_equality_values,
                   header_keys, header_to_position_lookup,
                   column_name_to_attribute_name_lookup, column_idx, lookup,
                   enum_lookup, reports, record_files, call>>

\* Manager.generate_validation_modules, with the first statement of
\* _generate_validation_modules_for_tsv_file (lines 101-102)
GenerateValidationModules ==
    /\ pc = "generate_validation_modules"
    /\ IF extension = ".csv"
       THEN Exit(1, "NOT YET IMPLEMENTED - unable to process .csv file")
       ELSE IF extension # ".tsv"
       THEN Exit(1, "Support does not exist for files with extension")
       ELSE IF ~infile_exists
       THEN Exit(1, "Exception: file does not exist")
       ELSE pc' = "derive_column_headers" /\ UNCHANGED <<exit_status, failure>>
    /\ UNCHANGED <<infile_exists, extension, infile, max_equality_values,
                   header_keys, header_to_position_lookup,
                   column_name_to_attribute_name_lookup, column_idx, lookup,
                   enum_lookup, reports, record_files, call>>

\* the keys a dict gets when the fields are inserted in order
RECURSIVE KeysInOrder(_, _)
KeysInOrder(fields, keys) ==
    IF fields = << >> THEN keys
    ELSE KeysInOrder(Tail(fields),
                     IF Head(fields) \in Range(keys) THEN keys
                     ELSE Append(keys, Head(fields)))

\* the loop of lines 330-336: lookup[field] = column_ctr, column_ctr from 0
RECURSIVE HeaderLoop(_, _, _)
HeaderLoop(row, column_ctr, positions) ==
    IF column_ctr >= Len(row) THEN positions
    ELSE HeaderLoop(row, column_ctr + 1,
                    DictSet(positions, row[column_ctr + 1], column_ctr))

\* Manager._derive_column_headers_for_tsv_file
DeriveColumnHeaders ==
    /\ pc = "derive_column_headers"
    /\ LET row == IF infile = << >> THEN << >> ELSE infile[1]
       IN  /\ header_keys' = KeysInOrder(row, << >>)
           /\ header_to_position_lookup' = HeaderLoop(row, 0, EmptyDict)
           /\ column_name_to_attribute_name_lookup' =
                 [field \in Range(row) |-> _derive_attribute_name(field)]
    /\ pc' = "process_columns"
    /\ column_idx' = 0
    /\ lookup' = EmptyDict
    /\ enum_lookup' = EmptyDict
    /\ UNCHANGED <<infile_exists, extension, infile, max_equality_values,
                   exit_status, failure, reports, record_files, call>>

ScanStart ==
    [uniq_val_lookup |-> EmptyDict, uniq_val_list |-> << >>, uniq_val_ctr |-> 0,
     row_ctr |-> 0, raised |-> FALSE]

\* the loop of lines 174-188 from the i-th row on; raised is the IndexError
\* of row[column_position] on a row that is too short
RECURSIVE ScanRows(_, _, _, _)
ScanRows(rows, i, column_position, acc) ==
    IF i > Len(rows) THEN acc
    ELSE LET row == rows[i]
             counted == [acc EXCEPT !.row_ctr = i]
         IN  IF i = 1 \/ Len(row) = 0
             THEN ScanRows(rows, i + 1, column_position, counted)
             ELSE IF column_position >= Len(row)
             THEN [counted EXCEPT !.raised = TRUE]
             ELSE LET val == row[column_position + 1]
                      seen == val \in DOMAIN acc.uniq_val_lookup
                      old == IF seen THEN acc.uniq_val_lookup[val] ELSE 0
                  IN  ScanRows(rows, i + 1, column_position,
                        [counted EXCEPT
                           !.uniq_val_lookup = DictSet(@, val, old + 1),
                           !.uniq_val_list = IF seen THEN @ ELSE Append(@, val),
                           !.uniq_val_ctr = IF seen THEN @ ELSE @ + 1])

\* a scan that takes the header row for a data row
ScanColumnCountingHeader(rows, column_position) ==
    ScanRows(<<<< >>>> \o rows, 1, column_position, ScanStart)

\* a scan that skips the first row after the header as well
ScanColumnSkippingTwoRows(rows, column_position) ==
    [ScanRows(Tail(rows), 1, column_position, ScanStart) EXCEPT !.row_ctr = @ + 1]

\* lines 167-188
ScanColumn(rows, column_position) == ScanRows(rows, 1, column_position, ScanStart)

\* eligibility with a strict comparison
EnumEligibleStrict(uniq_val_ctr, max) == uniq_val_ctr < max

\* lines 197 and 33
EnumEligible(uniq_val_ctr, max) == uniq_val_ctr <= max

\* lines 155-165: the entry is created only when the attribute name is new
NewEntry(column_name, column_position) ==
    [datatype |-> "str", column_name |-> column_name,
     column_position |-> column_position + 1,
     class_name |-> _derive_class_name_for_column_name(column_name)]

\* the datatype recorded as returned
RecordedDatatypeUnmapped(datatype) == datatype

\* lines 192-195
RecordedDatatype(datatype) == IF datatype = "different" THEN "str" ELSE datatype

\* Manager._write_column_report_file: the file written. The percentage
\* count / total_row_count * 100 of each line is left out; total_row_count
\* is never 0 here, as a value seen means row_ctr >= 2.
ColumnReport(column_name, column_position, scan) ==
    [outfile |-> _derive_column_outfile(column_name, column_position),
     column_name |-> column_name,
     column_position |-> column_position,
     total_row_count |-> scan.row_ctr - 1,
     uniq_val_ctr |-> scan.uniq_val_ctr,
     lines |-> [i \in DOMAIN scan.uniq_val_list |->
                  [value |-> scan.uniq_val_list[i],
                   count |-> scan.uniq_val_lookup[scan.uniq_val_list[i]]]]]

\* the locals of one iteration of the loop of lines 147-216, up to line 197
Iteration(column_name) ==
    LET column_position == header_to_position_lookup[column_name]
        attribute_name == column_name_to_attribute_name_lookup[column_name]
        created == IF attribute_name \in DOMAIN lookup THEN lookup
                   ELSE DictSet(lookup, attribute_name,
                                NewEntry(column_name, column_position))
        scan == ScanColumn(infile, column_position)
        datatype == _determine_datatype(scan.uniq_val_list)
    IN  [column_name |-> column_name,
         column_position |-> column_position,
         attribute_name |-> attribute_name,
         created |-> created,
         scan |-> scan,
         datatype |-> datatype,
         eligible |-> EnumEligible(scan.uniq_val_ctr, max_equality_values)]

\* one iteration of the loop of lines 147-216
ProcessColumn ==
    /\ pc = "process_columns"
    /\ column_idx < Len(header_keys)
    /\ \E it \in {Iteration(header_keys[column_idx + 1])} :
          IF it.scan.raised
          THEN /\ Exit(1, "IndexError: list index out of range")
               /\ lookup' = it.created
               /\ UNCHANGED <<column_idx, enum_lookup, reports>>
          ELSE IF it.datatype = "SystemExit"
          THEN /\ Exit(1, "values array is empty")
               /\ lookup' = it.created
               /\ UNCHANGED <<column_idx, enum_lookup, reports>>
          ELSE \E entry \in {DictSet(it.created[it.attribute_name], "datatype",
                                     RecordedDatatype(it.datatype))} :
               /\ lookup' =
                    DictSet(it.created, it.attribute_name,
                            IF it.eligible
                            THEN DictSet(entry, "uniq_values", it.scan.uniq_val_list)
                            ELSE entry)
               /\ enum_lookup' =
                    IF it.eligible
                    THEN _load_enum_lookup(it.scan.uniq_val_list, enum_lookup,
                                           entry["class_name"])
                    ELSE enum_lookup
               /\ reports' = Append(reports,
                    ColumnReport(it.column_name, it.column_position, it.scan))
               /\ column_idx' = column_idx + 1
               /\ UNCHANGED <<pc, exit_status, failure>>
    /\ UNCHANGED <<infile_exists, extension, infile, max_equality_values,
                   header_keys, header_to_position_lookup,
                   column_name_to_attribute_name_lookup, record_files, call>>

\* Manager._generate_record_class once the loop has ended, and the return to
\* main, which ends with status 0
GenerateRecordClass ==
    /\ pc = "process_columns"
    /\ column_idx = Len(header_keys)
    /\ record_files' = Append(record_files,
                              [lookup |-> lookup, enum_lookup |-> enum_lookup])
    /\ Exit(0, "none")
    /\ UNCHANGED <<infile_exists, extension, infile, max_equality_values,
                   header_keys, header_to_position_lookup,
                   column_name_to_attribute_name_lookup, column_idx, lookup,
                   enum_lookup, reports, call>>

Next ==
    \/ Main
    \/ GenerateValidationModules
    \/ DeriveColumnHeaders
    \/ ProcessColumn
    \/ GenerateRecordClass

Spec == Init /\ [][Next]_vars

\* ------------------------------------------------------------------------
\* What the input file holds, read off the file itself
\* ------------------------------------------------------------------------
\* indices of the rows after the header that are not zero-length
DataRows == {i \in 2..Len(infile) : infile[i] # << >>}

\* the rows among them that have a field at the 0-based position
RowsWithField(position) == {i \in DataRows : Len(infile[i]) > position}

\* the index of the first data row holding v at the position
FirstRowWith(position, v) ==
    CHOOSE i \in RowsWithField(position) :
        /\ infile[i][position + 1] = v
        /\ \A j \in RowsWithField(position) : infile[j][position + 1] = v => i <= j

DistinctValuesAt(position) == {infile[i][position + 1] : i \in RowsWithField(position)}

RECURSIVE SumCounts(_)
SumCounts(lines) == IF lines = << >> THEN 0 ELSE Head(lines).count + SumCounts(Tail(lines))

HasBlankDataRow == \E i \in 2..Len(infile) : infile[i] = << >>

\* the column the loop of line 147 handled last, once it has handled one
LastColumnName == header_keys[column_idx]

LastAttributeName == column_name_to_attribute_name_lookup[LastColumnName]

LastPosition == header_to_position_lookup[LastColumnName]

\* C2: for every column, the counts on the per-value lines of its report sum
\* to the 'Number of data rows' figure used as the percentage denominator,
\* for any input file, files with zero-length rows included.
C2_CountsSumToRowCount ==
    \A k \in DOMAIN reports : SumCounts(reports[k].lines) = reports[k].total_row_count

\* the baseline the first value fixes, and whether a later value matches it
\* (section 4.4 of the specification)
Baseline(first_value) ==
    IF _is_convertible_to_int(first_value) THEN "int"
    ELSE IF _is_convertible_to_float(first_value) THEN "float"
    ELSE "str"

MatchesBaseline(value, baseline) ==
    \/ baseline = "int" /\ _is_convertible_to_int(value)
    \/ baseline = "float" /\ _is_convertible_to_float(value)
    \/ /\ baseline = "str"
       /\ ~_is_convertible_to_int(value)
       /\ ~_is_convertible_to_float(value)

HasMismatch(values) ==
    \E i \in 2..Len(values) : ~MatchesBaseline(values[i], Baseline(values[1]))

ReportedValues(report) == [i \in DOMAIN report.lines |-> report.lines[i].value]

\* C4: as soon as a value after the first does not match the baseline type
\* fixed by the first value, _determine_datatype returns "different" and the
\* column's datatype is recorded as "str"; every datatype tag in the schema
\* lookup is one of int, float, str.
C4_MismatchIsRecordedAsStr ==
    /\ \A attribute_name \in DOMAIN lookup :
          lookup[attribute_name]["datatype"] \in {"int", "float", "str"}
    /\ column_idx >= 1 =>
          LET values == ReportedValues(reports[column_idx])
          IN  HasMismatch(values) =>
                /\ _determine_datatype(values) = "different"
                /\ lookup[LastAttributeName]["datatype"] = "str"

C4_Witness ==
    /\ column_idx >= 1
    /\ HasMismatch(ReportedValues(reports[column_idx]))
    /\ lookup[LastAttributeName]["datatype"] = "str"

\* a list holds the distinct values of a column in order of first occurrence
IsFirstSeenList(list, position) ==
    /\ Range(list) = DistinctValuesAt(position)
    /\ \A a, b \in DOMAIN list :
          a < b => /\ list[a] # list[b]
                   /\ FirstRowWith(position, list[a]) < FirstRowWith(position, list[b])

\* the datatype the code infers from the values reported for a position
ReportedDatatype(position) ==
    {RecordedDatatype(_determine_datatype(ReportedValues(reports[k]))) :
        k \in {n \in DOMAIN reports : reports[n].column_position = position}}

\* C5: for every header column, after the profiling pass the schema lookup
\* entry under that column's attribute name carries that column's original
\* name, its 1-based position, its derived class name, its inferred datatype,
\* and a uniq_values list holding its distinct raw values exactly when it is
\* enum-eligible; also when two header names derive the same attribute name.
C5_EntryDescribesItsColumn ==
    (pc = "exited" /\ exit_status = 0) =>
        \A i \in DOMAIN infile[1] :
            LET column_name == infile[1][i]
                attribute_name == _derive_attribute_name(column_name)
                entry == lookup[attribute_name]
                eligible == Cardinality(DistinctValuesAt(i - 1)) <= max_equality_values
            IN  /\ attribute_name \in DOMAIN lookup
                /\ entry["column_name"] = column_name
                /\ entry["column_position"] = i
                /\ entry["class_name"] = _derive_class_name_for_column_name(column_name)
                /\ entry["datatype"] \in ReportedDatatype(i - 1)
                /\ eligible <=> "uniq_values" \in DOMAIN entry
                /\ eligible => IsFirstSeenList(entry["uniq_values"], i - 1)

\* C6: whenever a profiling run ends in failure (non-zero exit), no column
\* report file and no record class file has been written by that run.
C6_NoPartialOutputOnFailure ==
    (pc = "exited" /\ exit_status # 0) => (reports = << >> /\ record_files = << >>)

\* the column handled last is marked enum-eligible: its entry's uniq_values
\* is the list of its distinct values
LastColumnMarked ==
    /\ "uniq_values" \in DOMAIN lookup[LastAttributeName]
    /\ Len(lookup[LastAttributeName]["uniq_values"]) =
          Cardinality(DistinctValuesAt(LastPosition))
    /\ Range(lookup[LastAttributeName]["uniq_values"]) = DistinctValuesAt(LastPosition)

\* its values are loaded into the enum lookup: each value's member name is a
\* member of the namespace of the entry's class name
LastColumnLoaded ==
    LET class_name == lookup[LastAttributeName]["class_name"]
    IN  /\ class_name \in DOMAIN enum_lookup
        /\ \A v \in DistinctValuesAt(LastPosition) :
              EnumName(v, class_name) \in DOMAIN enum_lookup[class_name]

\* C8: a column is marked enum-eligible (its values loaded into the enum
\* lookup, its uniq_values list set) if and only if its distinct-value count
\* is less than or equal to the configured max_equality_values.
C8_EligibleIffWithinThreshold ==
    column_idx >= 1 =>
        LET within == Cardinality(DistinctValuesAt(LastPosition)) <= max_equality_values
        IN  /\ LastColumnMarked <=> within
            /\ within => LastColumnLoaded

C8_Witness ==
    /\ column_idx >= 1
    /\ Cardinality(DistinctValuesAt(LastPosition)) = 2
    /\ max_equality_values = 2
    /\ LastColumnMarked
    /\ LastColumnLoaded

\* C9: the scan skips the header row and every zero-length row and reads the
\* value at the column's position of each remaining row: for every string v
\* the count table holds exactly the number of those rows whose field equals
\* v (no entry when that number is 0), and the distinct-value list holds each
\* such v once, in order of first occurrence.
C9_ScanCountsEveryDataRow ==
    \A k \in DOMAIN reports :
        LET position == reports[k].column_position
            lines == reports[k].lines
        IN  /\ RowsWithField(position) = DataRows
            /\ IsFirstSeenList(ReportedValues(reports[k]), position)
            /\ reports[k].uniq_val_ctr = Cardinality(DistinctValuesAt(position))
            /\ \A j \in DOMAIN lines :
                  /\ lines[j].count > 0
                  /\ lines[j].count =
                        Cardinality({i \in DataRows :
                                        infile[i][position + 1] = lines[j].value})

C9_Witness ==
    /\ HasBlankDataRow
    /\ \E k \in DOMAIN reports :
          /\ reports[k].column_position = 1
          /\ Len(reports[k].lines) = 1
          /\ reports[k].lines[1].count = 1

C9_WitnessOrder ==
    \E k \in DOMAIN reports :
        /\ Len(reports[k].lines) = 2
        /\ reports[k].lines[1].value = <<"a">>
        /\ reports[k].lines[2].value = <<"1">>

\* a column is profiled: the run reaches the loop of line 147 with a header
\* of at least one field
ColumnProfiled ==
    /\ pc \in {"process_columns", "exited"}
    /\ failure \notin {"Detected problems with input file",
                       "NOT YET IMPLEMENTED - unable to process .csv file",
                       "Support does not exist for files with extension",
                       "Exception: file does not exist"}
    /\ header_keys # << >>

\* C10: datatype inference exits the process when its value list is empty,
\* and this exit is reached exactly when a column is profiled over a file
\* with zero data rows (header only, or only zero-length rows after it); for
\* any file with at least one non-empty data row the list passed to
\* _determine_datatype is non-empty for every column.
C10_EmptyListExitIffNoDataRows ==
    /\ failure = "values array is empty" =>
          /\ pc = "exited" /\ exit_status = 1
          /\ ColumnProfiled
          /\ DataRows = {}
    /\ (ColumnProfiled /\ DataRows = {} /\ pc = "exited") =>
          failure = "values array is empty"
    /\ DataRows # {} => \A k \in DOMAIN reports : reports[k].lines # << >>

C10_Witness ==
    /\ failure = "values array is empty"
    /\ HasBlankDataRow

C10_WitnessNonEmpty ==
    /\ DataRows # {}
    /\ HasBlankDataRow
    /\ Len(reports) = 2

\* ------------------------------------------------------------------------
\* Header parsing
\* ------------------------------------------------------------------------
\* the run is past _derive_column_headers_for_tsv_file
HeadersParsed ==
    /\ pc \in {"process_columns", "exited"}
    /\ failure \notin {"Detected problems with input file",
                       "NOT YET IMPLEMENTED - unable to process .csv file",
                       "Support does not exist for files with extension",
                       "Exception: file does not exist"}

FirstIndexIn(row, name) ==
    CHOOSE i \in DOMAIN row : row[i] = name /\ \A j \in 1..(i - 1) : row[j] # name

\* C11: the header parser returns an ordered mapping column-name -> 0-based
\* position built from the first row, caching the attribute name of every
\* column name, and rejects a missing or empty input file: for such a file no
\* mapping is returned and no column is profiled.
C11_HeaderMappingOrRejection ==
    /\ HeadersParsed =>
          LET row == infile[1]
          IN  /\ DOMAIN header_to_position_lookup = Range(row)
              /\ Range(header_keys) = Range(row)
              /\ \A a, b \in DOMAIN header_keys :
                    a < b => FirstIndexIn(row, header_keys[a]) <
                             FirstIndexIn(row, header_keys[b])
              /\ \A name \in Range(row) :
                    /\ header_to_position_lookup[name] \in 0..(Len(row) - 1)
                    /\ row[header_to_position_lookup[name] + 1] = name
              /\ DOMAIN column_name_to_attribute_name_lookup = Range(row)
              /\ \A name \in Range(row) :
                    column_name_to_attribute_name_lookup[name] =
                        _derive_attribute_name(name)
    /\ (~infile_exists \/ infile = << >>) =>
          /\ pc \in {"main", "exited"}
          /\ pc = "exited" => exit_status = 1
          /\ header_keys = << >>
          /\ header_to_position_lookup = EmptyDict
          /\ column_idx = 0
          /\ reports = << >>
          /\ record_files = << >>

C11_Witness ==
    /\ infile_exists
    /\ infile = << >>
    /\ extension = ".tsv"
    /\ pc = "exited"
    /\ exit_status = 1

C11_WitnessMapping ==
    /\ HeadersParsed
    /\ Len(header_keys) = 2
    /\ header_to_position_lookup[header_keys[2]] = 1

\* ------------------------------------------------------------------------
\* Runs on files of three columns whose names differ only in separators
\* ------------------------------------------------------------------------
WideNames == { <<"a", "b">>, <<"a", " ", "b">>, <<"a", "_", "b">> }

WideValues == { <<"x">>, <<"X">> }

\* a header row of three fields and 1..MaxRows data rows of three fields
WideFiles ==
    { <<header>> \o data :
        header \in [1..3 -> WideNames],
        data \in UNION {[1..n -> [1..3 -> WideValues]] : n \in 1..MaxRows} }

\* the tool started on an existing .tsv file
InitWide ==
    /\ call = NoCall
    /\ infile_exists = TRUE
    /\ extension = ".tsv"
    /\ infile \in WideFiles
    /\ max_equality_values \in 1..MaxThreshold
    /\ pc = "main"
    /\ exit_status = "running"
    /\ failure = "none"
    /\ header_keys = << >>
    /\ header_to_position_lookup = EmptyDict
    /\ column_name_to_attribute_name_lookup = EmptyDict
    /\ column_idx = 0
    /\ lookup = EmptyDict
    /\ enum_lookup = EmptyDict
    /\ reports = << >>
    /\ record_files = << >>

SpecWide == InitWide /\ [][Next]_vars

\* the class name derived from the name of the i-th column handled
ClassNameOf(i) == _derive_class_name_for_column_name(header_keys[i])

\* the i-th column handled has at most max_equality_values distinct values
ColumnEligible(i) == reports[i].uniq_val_ctr <= max_equality_values

\* the enum-eligible columns handled so far whose derived class name is c
SharingColumns(c) == {i \in 1..column_idx : ColumnEligible(i) /\ ClassNameOf(i) = c}

\* value k of column i derives member name m under class name c, and no
\* later value of that column, and no value of a later column of
\* SharingColumns(c), derives m
IsLastWrite(c, i, k, m) ==
    /\ EnumName(reports[i].lines[k].value, c) = m
    /\ \A l \in DOMAIN reports[i].lines :
          l > k => EnumName(reports[i].lines[l].value, c) # m
    /\ \A j \in SharingColumns(c) :
          j > i => \A l \in DOMAIN reports[j].lines :
                      EnumName(reports[j].lines[l].value, c) # m

\* C12: enum-eligible columns that share the same derived class name
\* accumulate their members into one enum namespace keyed by that class name
\* (earlier columns' members are kept), and when two columns produce the same
\* member name the namespace holds the value written by the column processed
\* last.
C12_SharedClassNameSharesNamespace ==
    \A c \in {ClassNameOf(i) : i \in 1..column_idx} :
        Cardinality(SharingColumns(c)) >= 2 =>
            /\ c \in DOMAIN enum_lookup
            /\ \A i \in SharingColumns(c) : \A k \in DOMAIN reports[i].lines :
                  LET m == EnumName(reports[i].lines[k].value, c)
                  IN  /\ m \in DOMAIN enum_lookup[c]
                      /\ IsLastWrite(c, i, k, m) =>
                            enum_lookup[c][m] = reports[i].lines[k].value

\* ------------------------------------------------------------------------
\* Integer columns
\* ------------------------------------------------------------------------
AllParseAsInt(values) == \A i \in DOMAIN values : _is_convertible_to_int(values[i])

\* C13: _determine_datatype returns "int" for every non-empty value list in
\* which every value parses as an integer, and returns "int" for no list
\* that contains a value which does not parse as an integer.
C13_IntIffAllParseAsInt ==
    (call.fn = "_determine_datatype" /\ call.done /\ call.values # << >>) =>
        (call.ret = "int" <=> AllParseAsInt(call.values))

C13_Witness ==
    /\ call.fn = "_determine_datatype"
    /\ call.done
    /\ Len(call.values) = 3
    /\ AllParseAsInt(call.values)
    /\ call.ret = "int"

C13_WitnessNotInt ==
    /\ call.fn = "_determine_datatype"
    /\ call.done
    /\ Len(call.values) >= 2
    /\ _is_convertible_to_int(call.values[1])
    /\ ~AllParseAsInt(call.values)
    /\ call.ret = "different"

\* ------------------------------------------------------------------------
\* File extensions
\* ------------------------------------------------------------------------
\* C14: an unsupported file extension is fatal: header parsing and column
\* profiling start only when the extension is exactly ".tsv"; for every
\* other extension (".csv" included) the run ends with exit status 1 before
\* the file is read and before any report or record file is written.
C14_OnlyTsvIsProfiled ==
    extension # ".tsv" =>
        /\ pc \in {"main", "generate_validation_modules", "exited"}
        /\ pc = "exited" => exit_status = 1
        /\ header_keys = << >>
        /\ header_to_position_lookup = EmptyDict
        /\ column_name_to_attribute_name_lookup = EmptyDict
        /\ lookup = EmptyDict
        /\ enum_lookup = EmptyDict
        /\ column_idx = 0
        /\ reports = << >>
        /\ record_files = << >>

C14_Witness ==
    /\ extension = ".csv"
    /\ infile_exists
    /\ infile # << >>
    /\ pc = "exited"
    /\ exit_status = 1
    /\ failure = "NOT YET IMPLEMENTED - unable to process .csv file"

C14_WitnessOther ==
    /\ extension = ".txt"
    /\ infile_exists
    /\ infile # << >>
    /\ pc = "exited"
    /\ exit_status = 1
    /\ failure = "Support does not exist for files with extension"

C14_WitnessUpperCase ==
    /\ extension = ".TSV"
    /\ infile_exists
    /\ infile # << >>
    /\ pc = "exited"
    /\ exit_status = 1

\* ------------------------------------------------------------------------
\* Members of one column
\* ------------------------------------------------------------------------
\* the namespace the column handled last was loaded into
LastNamespace == enum_lookup[lookup[LastAttributeName]["class_name"]]

\* C15: for every enum-eligible column, after _load_enum_lookup every
\* distinct value of that column is the value of some member of its class's
\* enum namespace: no two distinct values of one column derive the same
\* member name, so the column contributes as many members as it has distinct
\* values.
C15_EveryValueHasItsMember ==
    (/\ column_idx >= 1
     /\ Cardinality(DistinctValuesAt(LastPosition)) <= max_equality_values) =>
        /\ \A v \in DistinctValuesAt(LastPosition) :
              \E m \in DOMAIN LastNamespace : LastNamespace[m] = v
        /\ \A v, w \in DistinctValuesAt(LastPosition) :
              v # w => EnumName(v, lookup[LastAttributeName]["class_name"]) #
                       EnumName(w, lookup[LastAttributeName]["class_name"])

\* ------------------------------------------------------------------------
\* Completion of the profiling pass
\* ------------------------------------------------------------------------
\* C16: for every input file whose header row has n fields and that has at
\* least one non-empty data row, the profiling pass runs to completion,
\* profiles each of the n header positions exactly once in header order,
\* writes exactly n column report files (one per position 0..n-1) and only
\* then writes the record class file once; also when header names repeat
\* and when data rows have fewer fields than the header.
C16_EveryPositionProfiledOnce ==
    (extension = ".tsv" /\ infile_exists /\ infile # << >> /\ DataRows # {}) =>
        /\ pc = "exited" =>
              /\ exit_status = 0
              /\ Len(reports) = Len(infile[1])
              /\ Len(record_files) = 1
        /\ \A i \in DOMAIN reports :
              /\ reports[i].column_position = i - 1
              /\ reports[i].outfile[1] = i - 1
        /\ record_files # << >> => Len(reports) = Len(infile[1])

====
